---- MODULE Spec2Model ----
(***************************************************************************)
(* Conference Central (conference.py, main.py): the datastore entities     *)
(* Profile, Conference and Session, the transactional registration and     *)
(* wishlist handlers of ConferenceApi, and conference creation and update. *)
(*                                                                         *)
(* A request is served by a worker.  A handler wrapped in                  *)
(* @ndb.transactional reads a snapshot of the store when it begins, runs   *)
(* its body on that snapshot, and commits its buffered puts atomically; a  *)
(* commit that finds one of the entity groups it read written by another   *)
(* commit since the snapshot is retried (the body runs again on a fresh    *)
(* snapshot) up to Retries times and then fails.  An exception raised by   *)
(* the body rolls the transaction back: none of its puts is applied.       *)
(*                                                                         *)
(* queryConferences compiles a list of filters into a query (_getQuery,    *)
(* _formatFilters); SpecQuery applies it to every list of up to MaxFilters *)
(* filters.                                                                *)
(*                                                                         *)
(* createSession puts a Session and adds a set_featured_speaker task; the  *)
(* queue delivers a task at least once, and each delivery runs             *)
(* SetFeaturedSpeakerHandler.post: a query of the speaker's sessions at    *)
(* the conference, a memcache set, and _updateSpeaker's get and put of the *)
(* Speaker, which are not in a transaction.  The query is taken to see     *)
(* every Session that has been put.                                        *)
(***************************************************************************)
EXTENDS Integers, Sequences, FiniteSets, TLC

\* ------------------------------------------------------------- bounds
\* Largest maxAttendees / seatsAvailable value a request carries.
MaxAttendees == 2

\* Retries of a transactional function after a commit conflict
\* (ndb.transactional's default).
Retries == 3

\* Longest list of filters a queryConferences request carries.
MaxFilters == 3

\* Number of sessions created, and of deliveries by the queue of a task it
\* has delivered before.
MaxSessions == 3

MaxRedeliveries == 1

\* ------------------------------------------------------------- keys
Users == {"u1", "u2"}
Workers == {"w1", "w2"}
ConfKeys == {"c1", "c2"}
SessionKeys == {"s1", "s2"}

\* A Conference key's parent is the Profile key of the user who created it.
ConfParent(c) == IF c = "c1" THEN "u1" ELSE "u2"

\* A Session key's parent is the key of its conference.
SessionParent(s) == IF s = "s1" THEN "c1" ELSE "c2"

\* ------------------------------------------------------------- entities
\* The result of key.get() for a key with no entity, kind by kind.
NoProfile ==
  [exists |-> FALSE, conferenceKeysToAttend |-> <<>>, sessionKeysOnWishlist |-> <<>>]

NoConference ==
  [exists |-> FALSE, maxAttendees |-> 0, seatsAvailable |-> 0, organizerUserId |-> ""]

NoSession ==
  [exists |-> FALSE, name |-> "", speakerKey |-> "", websafeConferenceKey |-> ""]

NoSpeaker == [exists |-> FALSE, name |-> "", sessions |-> <<>>, sessions_count |-> 0]

\* A request field that was not supplied (Python None) is <<>>, a supplied
\* value v is <<v>>.
None == <<>>

Opt(S) == {None} \cup {<<v>> : v \in S}

\* x in list
Contains(list, x) == \E i \in 1..Len(list) : list[i] = x

\* list.remove(x): drops the first occurrence of x.
Remove(list, x) ==
  LET i == CHOOSE j \in 1..Len(list) :
             list[j] = x /\ \A k \in 1..(j - 1) : list[k] # x
  IN  SubSeq(list, 1, i - 1) \o SubSeq(list, i + 1, Len(list))

VARIABLES
  profiles,     \* Profile entities, by user id
  conferences,  \* Conference entities, by key
  sessions,     \* Session entities, by key
  pc,           \* each worker: "idle", "running" (in a transaction), "done"
  req,          \* each worker's request
  snap,         \* each worker's transaction snapshot
  attempt,      \* each worker's number of retries so far
  stale,        \* each worker: an entity group it read was written since
  result,       \* each worker's response
  linkPre,      \* history: seats and keys as they were before a Link that
                \* nothing has followed yet, by user and conference
  filters,      \* the filters of a queryConferences request
  query,        \* what _getQuery made of them
  speakers,     \* Speaker entities, by key
  tasks,        \* the set_featured_speaker task of each session created
  consumer,     \* each task's handler: its position and the Speaker it read
  cache,        \* the memcache entry FEATURED_SPEAKER
  announcements \* the memcache entry RECENT_ANNOUNCEMENTS

vars == <<profiles, conferences, sessions, pc, req, snap, attempt, stale,
          result, linkPre, filters, query, speakers, tasks, consumer, cache,
          announcements>>

queryVars == <<filters, query>>

speakerVars == <<speakers, tasks, consumer, cache>>

requestVars == <<pc, req, snap, attempt, stale, result, linkPre>>

store == <<profiles, conferences, sessions>>

\* ------------------------------------------------------------- handler bodies
\* The two ConflictExceptions of _conferenceRegistration differ by message.
AlreadyRegistered == "You have already registered for this conference"

NoSeats == "There are no seats available."

\* What a handler body hands back to the transaction: the exception it raised
\* (exc = "" when it returned), the BooleanMessage data it returned, and the
\* entities it put.
Raise(exc, msg) ==
  [exc |-> exc, msg |-> msg, data |-> "",
   putProf |-> FALSE, prof |-> NoProfile, putConf |-> FALSE, conf |-> NoConference]

Return(data, putProf, prof, putConf, conf) ==
  [exc |-> "", msg |-> "", data |-> data,
   putProf |-> putProf, prof |-> prof, putConf |-> putConf, conf |-> conf]

\* _getProfileFromUser: the stored Profile, or a new one (which it puts).
getProfileFromUser(profile) ==
  IF profile.exists
    THEN profile
    ELSE [exists |-> TRUE, conferenceKeysToAttend |-> <<>>,
          sessionKeysOnWishlist |-> <<>>]

\* _conferenceRegistration as it would be with one of its statements changed:
\* without the already-registered check, without the seats check, with another
\* seat count given back on unregistering, without the list's remove, or with a
\* seat given back by an unregister that removed nothing.
RegistrationVariant(profile, conf, wsck, reg, checkDup, checkSeats, back, drop, stray) ==
  LET prof == getProfileFromUser(profile) IN
  IF ~conf.exists
    THEN Raise("NotFoundException", "No conference found with key")
  ELSE IF reg
    THEN IF checkDup /\ Contains(prof.conferenceKeysToAttend, wsck)
           THEN Raise("ConflictException", AlreadyRegistered)
         ELSE IF checkSeats /\ conf.seatsAvailable <= 0
           THEN Raise("ConflictException", NoSeats)
         ELSE Return("True",
                TRUE, [prof EXCEPT !.conferenceKeysToAttend = Append(@, wsck)],
                TRUE, [conf EXCEPT !.seatsAvailable = @ - 1])
  ELSE IF Contains(prof.conferenceKeysToAttend, wsck)
    THEN Return("True",
           TRUE, [prof EXCEPT !.conferenceKeysToAttend =
                    IF drop THEN Remove(@, wsck) ELSE @],
           TRUE, [conf EXCEPT !.seatsAvailable = @ + back])
    ELSE Return("False", TRUE, prof,
                TRUE, [conf EXCEPT !.seatsAvailable = @ + stray])

RegistrationNoSeatsCheck(profile, conf, wsck, reg) ==
  RegistrationVariant(profile, conf, wsck, reg, TRUE, FALSE, 1, TRUE, 0)

RegistrationNoDuplicateCheck(profile, conf, wsck, reg) ==
  RegistrationVariant(profile, conf, wsck, reg, FALSE, TRUE, 1, TRUE, 0)

RegistrationStraySeat(profile, conf, wsck, reg) ==
  RegistrationVariant(profile, conf, wsck, reg, TRUE, TRUE, 1, TRUE, 1)

RegistrationNoSeatBack(profile, conf, wsck, reg) ==
  RegistrationVariant(profile, conf, wsck, reg, TRUE, TRUE, 0, TRUE, 0)

RegistrationNoRemove(profile, conf, wsck, reg) ==
  RegistrationVariant(profile, conf, wsck, reg, TRUE, TRUE, 1, FALSE, 0)

\* As _conferenceRegistration, were the seats check made before the
\* already-registered check.
RegistrationSeatsFirst(profile, conf, wsck, reg) ==
  LET prof == getProfileFromUser(profile) IN
  IF ~conf.exists
    THEN Raise("NotFoundException", "No conference found with key")
  ELSE IF reg
    THEN IF conf.seatsAvailable <= 0
           THEN Raise("ConflictException", NoSeats)
         ELSE IF Contains(prof.conferenceKeysToAttend, wsck)
           THEN Raise("ConflictException", AlreadyRegistered)
         ELSE Return("True",
                TRUE, [prof EXCEPT !.conferenceKeysToAttend = Append(@, wsck)],
                TRUE, [conf EXCEPT !.seatsAvailable = @ - 1])
  ELSE IF Contains(prof.conferenceKeysToAttend, wsck)
    THEN Return("True",
           TRUE, [prof EXCEPT !.conferenceKeysToAttend = Remove(@, wsck)],
           TRUE, [conf EXCEPT !.seatsAvailable = @ + 1])
    ELSE Return("False", TRUE, prof, TRUE, conf)

\* _conferenceRegistration(request, reg) on the profile and conference read.
conferenceRegistration(profile, conf, wsck, reg) ==
  LET prof == getProfileFromUser(profile) IN
  IF ~conf.exists
    THEN Raise("NotFoundException", "No conference found with key")
  ELSE IF reg
    THEN IF Contains(prof.conferenceKeysToAttend, wsck)
           THEN Raise("ConflictException", AlreadyRegistered)
         ELSE IF conf.seatsAvailable <= 0
           THEN Raise("ConflictException", NoSeats)
         ELSE Return("True",
                TRUE, [prof EXCEPT !.conferenceKeysToAttend = Append(@, wsck)],
                TRUE, [conf EXCEPT !.seatsAvailable = @ - 1])
  ELSE IF Contains(prof.conferenceKeysToAttend, wsck)
    THEN Return("True",
           TRUE, [prof EXCEPT !.conferenceKeysToAttend = Remove(@, wsck)],
           TRUE, [conf EXCEPT !.seatsAvailable = @ + 1])
    ELSE Return("False", TRUE, prof, TRUE, conf)

\* As addSessionToWishlist, were a session already on the wishlist appended
\* again.
WishlistAddNoDuplicateCheck(profile, session, wssk) ==
  LET prof == getProfileFromUser(profile) IN
  IF ~session.exists
    THEN Raise("NotFoundException", "No session found with key")
    ELSE Return("True",
           TRUE, [prof EXCEPT !.sessionKeysOnWishlist = Append(@, wssk)],
           FALSE, NoConference)

\* addSessionToWishlist: the ConflictException of a duplicate is raised inside
\* the try block and caught by its bare except, which makes the result False.
addSessionToWishlist(profile, session, wssk) ==
  LET prof == getProfileFromUser(profile) IN
  IF ~session.exists
    THEN Raise("NotFoundException", "No session found with key")
  ELSE IF Contains(prof.sessionKeysOnWishlist, wssk)
    THEN Return("False", ~profile.exists, prof, FALSE, NoConference)
    ELSE Return("True",
           TRUE, [prof EXCEPT !.sessionKeysOnWishlist = Append(@, wssk)],
           FALSE, NoConference)

\* deleteSessionFromWishlist: the NotFoundException of a session that is not
\* on the wishlist is raised inside the try block and caught the same way.
deleteSessionFromWishlist(profile, session, wssk) ==
  LET prof == getProfileFromUser(profile) IN
  IF ~session.exists
    THEN Raise("NotFoundException", "No session found with key")
  ELSE IF Contains(prof.sessionKeysOnWishlist, wssk)
    THEN Return("True",
           TRUE, [prof EXCEPT !.sessionKeysOnWishlist = Remove(@, wssk)],
           FALSE, NoConference)
    ELSE Return("False", ~profile.exists, prof, FALSE, NoConference)

\* As _updateConferenceObject, were the caller not compared with the
\* conference's organizerUserId.
UpdateConferenceNoOwnerCheck(profile, conf, user_id, maxAttendees, seatsAvailable) ==
  IF ~conf.exists
    THEN Raise("NotFoundException", "No conference found with key")
  ELSE IF ~profile.exists
    THEN Raise("AttributeError", "displayName")
  ELSE Return("ConferenceForm",
         FALSE, NoProfile,
         TRUE, [conf EXCEPT
                  !.maxAttendees =
                     IF maxAttendees = None THEN @ ELSE maxAttendees[1],
                  !.seatsAvailable =
                     IF seatsAvailable = None THEN @ ELSE seatsAvailable[1]])

\* _updateConferenceObject: every supplied field of the request is copied onto
\* the conference, maxAttendees and seatsAvailable like any other; the
\* organizer's displayName is then read from the Profile.
updateConferenceObject(profile, conf, user_id, maxAttendees, seatsAvailable) ==
  IF ~conf.exists
    THEN Raise("NotFoundException", "No conference found with key")
  ELSE IF user_id # conf.organizerUserId
    THEN Raise("ForbiddenException", "Only the owner can update the conference.")
  ELSE IF ~profile.exists
    THEN Raise("AttributeError", "displayName")
  ELSE Return("ConferenceForm",
         FALSE, NoProfile,
         TRUE, [conf EXCEPT
                  !.maxAttendees =
                     IF maxAttendees = None THEN @ ELSE maxAttendees[1],
                  !.seatsAvailable =
                     IF seatsAvailable = None THEN @ ELSE seatsAvailable[1]])

\* _createConferenceObject's entity: DEFAULTS fill the missing fields and
\* seatsAvailable is set to maxAttendees when maxAttendees > 0.
createConferenceObject(user_id, maxAttendees, seatsAvailable) ==
  LET ma == IF maxAttendees = None THEN 0 ELSE maxAttendees[1]
      sa == IF seatsAvailable = None THEN 0 ELSE seatsAvailable[1]
  IN  [exists |-> TRUE, maxAttendees |-> ma,
       seatsAvailable |-> IF ma > 0 THEN ma ELSE sa,
       organizerUserId |-> user_id]

\* ------------------------------------------------------------- query filters
\* FIELDS and OPERATORS: the names a filter may carry and what they stand for.
FIELDS ==
  [CITY |-> "city", TOPIC |-> "topics", MONTH |-> "month",
   MAX_ATTENDEES |-> "maxAttendees"]

OPERATORS ==
  [EQ |-> "=", GT |-> ">", GTEQ |-> ">=", LT |-> "<", LTEQ |-> "<=", NE |-> "!="]

\* The field and operator names of the requests: names of the two tables (a
\* text field and two number fields; the equality and two other operators)
\* and one name outside each.
FieldNames == {"CITY", "MONTH", "MAX_ATTENDEES", "NAME"}

OperatorNames == {"EQ", "GT", "NE", "IN"}

\* Texts are sequences of characters; the values of the requests are the
\* text of a number and a text that is not one.
Digits == <<"0", "1", "2", "3", "4", "5", "6", "7", "8", "9">>

Texts == {<<"1", "2">>, <<"N", "Y">>}

DigitValue(ch) == (CHOOSE d \in 1..Len(Digits) : Digits[d] = ch) - 1

\* Python's int() of a text: the number it spells in base ten, or None where
\* it raises ValueError.
RECURSIVE ParseDigits(_, _)
ParseDigits(text, n) ==
  IF text = <<>> THEN n
  ELSE ParseDigits(Tail(text), 10 * n + DigitValue(Head(text)))

int(text) ==
  IF text # <<>> /\ \A i \in 1..Len(text) : \E d \in 1..Len(Digits) : Digits[d] = text[i]
    THEN <<ParseDigits(text, 0)>>
    ELSE None

\* A ConferenceQueryForm.
QueryForms == [field : FieldNames, operator : OperatorNames, value : Texts]

\* What _getQuery yields: the query it returns, with its sort orders and its
\* filter nodes, or the exception it raises; NoQuery before it has run.
NoQuery == [state |-> "none", exc |-> "", msg |-> "", orders |-> <<>>, nodes |-> <<>>]

QueryRaised(exc, msg) ==
  [state |-> "raised", exc |-> exc, msg |-> msg, orders |-> <<>>, nodes |-> <<>>]

QueryReturned(orders, nodes) ==
  [state |-> "returned", exc |-> "", msg |-> "", orders |-> orders, nodes |-> nodes]

InvalidFilter == "Filter contains invalid field or operator."

OneInequalityField == "Inequality filter is allowed on only one field."

\* As formatFilter, were a name outside the tables passed on as it is.
FormatFilterUnchecked(f) ==
  <<[field |-> IF f.field \in DOMAIN FIELDS THEN FIELDS[f.field] ELSE f.field,
     operator |-> IF f.operator \in DOMAIN OPERATORS
                    THEN OPERATORS[f.operator] ELSE f.operator,
     value |-> f.value]>>

\* The two table lookups of _formatFilters: the filter with the datastore's
\* field and operator, or None where a lookup raises KeyError.
formatFilter(f) ==
  IF f.field \in DOMAIN FIELDS /\ f.operator \in DOMAIN OPERATORS
    THEN <<[field |-> FIELDS[f.field], operator |-> OPERATORS[f.operator],
            value |-> f.value]>>
    ELSE None

\* As InequalityConflict, were an inequality allowed on any number of fields.
InequalityConflictNever(inequality_field, filtr) == FALSE

\* The formatted filter is an inequality on a field other than the one an
\* earlier inequality was on.
InequalityConflict(inequality_field, filtr) ==
  /\ filtr.operator # "="
  /\ inequality_field # None
  /\ inequality_field[1] # filtr.field

\* The loop of _formatFilters over what is left of the list.
RECURSIVE formatFiltersFrom(_, _, _)
formatFiltersFrom(rest, inequality_field, formatted_filters) ==
  IF rest = <<>>
    THEN [exc |-> "", msg |-> "", inequality_field |-> inequality_field,
          filters |-> formatted_filters]
  ELSE LET formatted == formatFilter(Head(rest)) IN
    IF formatted = None
      THEN [exc |-> "BadRequestException", msg |-> InvalidFilter,
            inequality_field |-> None, filters |-> <<>>]
    ELSE IF InequalityConflict(inequality_field, formatted[1])
      THEN [exc |-> "BadRequestException", msg |-> OneInequalityField,
            inequality_field |-> None, filters |-> <<>>]
    ELSE formatFiltersFrom(Tail(rest),
           IF formatted[1].operator # "=" THEN <<formatted[1].field>>
                                          ELSE inequality_field,
           Append(formatted_filters, formatted[1]))

formatFilters(fs) == formatFiltersFrom(fs, None, <<>>)

\* As Orders, were the name the first sort key in every query.
OrdersNameFirst(inequality_field) ==
  IF inequality_field = None THEN <<"name">> ELSE <<"name", inequality_field[1]>>

\* The sort orders _getQuery gives the query.
Orders(inequality_field) ==
  IF inequality_field = None THEN <<"name">> ELSE <<inequality_field[1], "name">>

\* The value of a filter node: the number for month and maxAttendees, the
\* text for the other fields; None where int() raises.
NodeValue(filtr) ==
  IF filtr.field \in {"month", "maxAttendees"}
    THEN IF int(filtr.value) = None THEN None
         ELSE <<[number |-> int(filtr.value), text |-> <<>>]>>
    ELSE <<[number |-> None, text |-> filtr.value]>>

\* As Filter, were a node to take the place of the earlier nodes on its field.
FilterPerField(nodes, node) ==
  Append(SelectSeq(nodes, LAMBDA n : n.field # node.field), node)

\* q.filter(node): the query with one more node.
Filter(nodes, node) == Append(nodes, node)

\* The loop of _getQuery over the formatted filters: the nodes of the query,
\* or None where a value is not a number.
RECURSIVE FilterNodes(_, _)
FilterNodes(rest, nodes) ==
  IF rest = <<>> THEN <<nodes>>
  ELSE LET filtr == Head(rest)
           value == NodeValue(filtr)
       IN  IF value = None THEN None
           ELSE FilterNodes(Tail(rest),
                  Filter(nodes, [field |-> filtr.field, operator |-> filtr.operator,
                                 value |-> value[1]]))

\* _getQuery for the filters fs.
getQuery(fs) ==
  LET formatted == formatFilters(fs) IN
  IF formatted.exc # "" THEN QueryRaised(formatted.exc, formatted.msg)
  ELSE LET nodes == FilterNodes(formatted.filters, <<>>) IN
       IF nodes = None THEN QueryRaised("ValueError", "")
       ELSE QueryReturned(Orders(formatted.inequality_field), nodes[1])

\* No queryConferences request has been made.
NoQueryRequest == filters = <<>> /\ query = NoQuery

\* ------------------------------------------------------------- speakers
SpeakerKeys == {"k1", "k2"}

SpeakerNames == {"Ann", "Bob"}

\* Session ids in the order allocate_ids hands them out, and the name the
\* request for each session carries: every session has a name of its own.
SessionIds == 1..MaxSessions

SessionTitles == <<"Keynote", "Panel", "Workshop", "Tutorial", "Demo", "Closing">>

\* A SpeakerForm: the name, and the two fields of the entity a client may
\* also send, sessions ([] when omitted) and sessions_count (None when omitted).
SpeakerForms ==
  [name : SpeakerNames, sessions : {<<>>, <<"Talk">>}, sessions_count : Opt(0..1)]

\* The forms of updateSpeaker: as SpeakerForm, and the name may be omitted.
SpeakerUpdateForms ==
  [name : Opt(SpeakerNames), sessions : {<<>>, <<"Talk">>}, sessions_count : Opt(0..1)]

\* _createSpeakerObject's entity: every field of the form but websafeKey goes
\* into Speaker(**data).
createSpeakerObject(form) ==
  [exists |-> TRUE, name |-> form.name, sessions |-> form.sessions,
   sessions_count |-> IF form.sessions_count = None THEN 0 ELSE form.sessions_count[1]]

\* _updateSpeakerObject's entity: every field the request carries (not None,
\* not []) is copied onto the Speaker.
updateSpeakerObject(speaker, form) ==
  [exists |-> TRUE,
   name |-> IF form.name = None THEN speaker.name ELSE form.name[1],
   sessions |-> IF form.sessions = <<>> THEN speaker.sessions ELSE form.sessions,
   sessions_count |-> IF form.sessions_count = None THEN speaker.sessions_count
                      ELSE form.sessions_count[1]]

\* _createSessionObject's entity and the task it adds to the queue.
createSessionObject(name, speakerKey, wsck) ==
  [exists |-> TRUE, name |-> name, speakerKey |-> speakerKey,
   websafeConferenceKey |-> wsck]

NoTask ==
  [enqueued |-> FALSE, speakerKey |-> "", speakerName |-> "", sessionName |-> "",
   websafeConferenceKey |-> "", runs |-> 0]

Task(speakerKey, speakerName, sessionName, wsck) ==
  [enqueued |-> TRUE, speakerKey |-> speakerKey, speakerName |-> speakerName,
   sessionName |-> sessionName, websafeConferenceKey |-> wsck, runs |-> 0]

\* Session.query(speakerKey == k, websafeConferenceKey == c): the names of the
\* sessions found, in key order.
RECURSIVE SessionNamesFrom(_, _, _)
SessionNamesFrom(id, k, c) ==
  IF id \notin DOMAIN sessions THEN <<>>
  ELSE (IF /\ sessions[id].exists
           /\ sessions[id].speakerKey = k
           /\ sessions[id].websafeConferenceKey = c
          THEN <<sessions[id].name>> ELSE <<>>)
       \o SessionNamesFrom(id + 1, k, c)

\* ", ".join(names): a text is the sequence of its pieces.
RECURSIVE Join(_)
Join(names) ==
  IF Len(names) <= 1 THEN names
  ELSE <<Head(names), ", ">> \o Join(Tail(names))

\* The text SetFeaturedSpeakerHandler writes to memcache.
Announcement(speakerName, names) ==
  <<speakerName, " is Featured Speaker with sessions ">> \o Join(names)

NoCache == [set |-> FALSE, value |-> <<>>]

\* As FeaturedSpeaker, were the entry set only for a speaker with more than
\* two sessions at the conference.
FeaturedSpeakerMoreThanTwo(task) ==
  LET names == SessionNamesFrom(1, task.speakerKey, task.websafeConferenceKey) IN
  IF Len(names) > 2
    THEN [set |-> TRUE, value |-> Announcement(task.speakerName, names)]
    ELSE cache

\* As FeaturedSpeaker, were the entry deleted for a speaker with at most one
\* session at the conference.
FeaturedSpeakerOrNone(task) ==
  LET names == SessionNamesFrom(1, task.speakerKey, task.websafeConferenceKey) IN
  IF Len(names) > 1
    THEN [set |-> TRUE, value |-> Announcement(task.speakerName, names)]
    ELSE NoCache

\* As FeaturedSpeaker, were the announcement made of the task's session alone.
FeaturedSpeakerOwnSession(task) ==
  LET names == SessionNamesFrom(1, task.speakerKey, task.websafeConferenceKey) IN
  IF Len(names) > 1
    THEN [set |-> TRUE, value |-> Announcement(task.speakerName, <<task.sessionName>>)]
    ELSE cache

\* The memcache entry after SetFeaturedSpeakerHandler's query and set.
FeaturedSpeaker(task) ==
  LET names == SessionNamesFrom(1, task.speakerKey, task.websafeConferenceKey) IN
  IF Len(names) > 1
    THEN [set |-> TRUE, value |-> Announcement(task.speakerName, names)]
    ELSE cache

\* _updateSpeaker's change to the Speaker it read.
updateSpeakerSessions(speaker, sessionName) ==
  LET appended == Append(speaker.sessions, sessionName) IN
  [speaker EXCEPT !.sessions = appended, !.sessions_count = Len(appended)]

IdleConsumer == [pc |-> "idle", speaker |-> NoSpeaker]

\* The deliveries of tasks, begun so far, that were not the task's first.
RECURSIVE RedeliveriesFrom(_)
RedeliveriesFrom(t) ==
  IF t \notin DOMAIN tasks THEN 0
  ELSE (LET begun == tasks[t].runs + (IF consumer[t].pc = "idle" THEN 0 ELSE 1)
        IN  IF begun > 1 THEN begun - 1 ELSE 0)
       + RedeliveriesFrom(t + 1)

Redeliveries == RedeliveriesFrom(1)

\* The tasks whose handler is running, each on a worker of its own.
Handling == {t \in DOMAIN consumer : consumer[t].pc # "idle"}

\* No speaker, no task and no cache entry.
NoSpeakers ==
  /\ speakers = [k \in SpeakerKeys |-> NoSpeaker]
  /\ tasks = [t \in SessionIds |-> NoTask]
  /\ consumer = [t \in SessionIds |-> IdleConsumer]
  /\ cache = NoCache

\* ------------------------------------------------------------- transactions
Ops == {"register", "unregister", "wishlistAdd", "wishlistDelete", "update"}

NoRequest ==
  [op |-> "", user |-> "", key |-> "", maxAttendees |-> None, seatsAvailable |-> None]

NoSnapshot == [prof |-> NoProfile, conf |-> NoConference, sess |-> NoSession]

\* A response: the exception raised or the data returned, and (history) the
\* round trip the call completed, if it completed one.
Response(exc, msg, data, roundTrip) ==
  [exc |-> exc, msg |-> msg, data |-> data, roundTrip |-> roundTrip]

NoResult == Response("", "", "", <<>>)

\* The entities request r reads: the user's Profile and the entity of the key.
Read(r) ==
  [prof |-> profiles[r.user],
   conf |-> IF r.key \in ConfKeys THEN conferences[r.key] ELSE NoConference,
   sess |-> IF r.key \in SessionKeys THEN sessions[r.key] ELSE NoSession]

\* The handler body of request r run on snapshot s.
Body(r, s) ==
  CASE r.op = "register" -> conferenceRegistration(s.prof, s.conf, r.key, TRUE)
    [] r.op = "unregister" -> conferenceRegistration(s.prof, s.conf, r.key, FALSE)
    [] r.op = "wishlistAdd" -> addSessionToWishlist(s.prof, s.sess, r.key)
    [] r.op = "wishlistDelete" -> deleteSessionFromWishlist(s.prof, s.sess, r.key)
    [] r.op = "update" ->
         updateConferenceObject(s.prof, s.conf, r.user, r.maxAttendees, r.seatsAvailable)

\* The entity group (root key: a Profile key) of the request's key.
KeyGroup(k) == IF k \in ConfKeys THEN ConfParent(k) ELSE ConfParent(SessionParent(k))

ReadGroups(r) == {r.user, KeyGroup(r.key)}

WriteGroups(r, out) ==
  (IF out.putProf THEN {r.user} ELSE {}) \cup
  (IF out.putConf THEN {KeyGroup(r.key)} ELSE {})

\* As TxnConflict, were the handlers not transactional: a commit never conflicts.
TxnConflictNever(w) == FALSE

\* @ndb.transactional: the commit of worker w's puts conflicts when an entity
\* group the transaction read has been written since its snapshot.
TxnConflict(w) ==
  stale[w] /\ WriteGroups(req[w], Body(req[w], snap[w])) # {}

\* The workers whose running transaction read one of the groups now written.
Invalidated(w, groups) ==
  [v \in Workers |->
     IF v # w /\ pc[v] = "running" /\ ReadGroups(req[v]) \cap groups # {}
       THEN TRUE ELSE stale[v]]

\* History: a commit that writes user u's Profile or conference c ends every
\* pending round trip through either; a successful register starts one.
LinkPreAfter(r, out) ==
  [u \in Users |-> [c \in ConfKeys |->
     IF r.op = "register" /\ u = r.user /\ c = r.key
       THEN <<[seatsAvailable |-> conferences[c].seatsAvailable,
               keys |-> profiles[u].conferenceKeysToAttend]>>
     ELSE IF (out.putProf /\ u = r.user) \/ (out.putConf /\ c = r.key)
       THEN <<>>
       ELSE linkPre[u][c]]]

\* History: an unregister that follows the same user's register with no write
\* to either entity in between completes a round trip.
RoundTrip(r, out) ==
  IF r.op = "unregister" /\ out.data = "True" /\ linkPre[r.user][r.key] # <<>>
    THEN <<[before |-> linkPre[r.user][r.key][1],
            after |-> [seatsAvailable |-> out.conf.seatsAvailable,
                       keys |-> out.prof.conferenceKeysToAttend]]>>
    ELSE <<>>

\* ------------------------------------------------------------- actions
\* A worker takes a request and its transaction begins: the snapshot is read.
Begin(w, op, u, k, ma, sa) ==
  /\ pc[w] = "idle"
  /\ pc' = [pc EXCEPT ![w] = "running"]
  /\ req' = [req EXCEPT ![w] =
       [op |-> op, user |-> u, key |-> k, maxAttendees |-> ma, seatsAvailable |-> sa]]
  /\ snap' = [snap EXCEPT ![w] = Read(req'[w])]
  /\ attempt' = [attempt EXCEPT ![w] = 0]
  /\ stale' = [stale EXCEPT ![w] = FALSE]
  /\ UNCHANGED <<announcements, store, result, linkPre, queryVars, speakerVars>>

registerForConference(w, u, k) == Begin(w, "register", u, k, None, None)

unregisterFromConference(w, u, k) == Begin(w, "unregister", u, k, None, None)

wishlistAdd(w, u, k) == Begin(w, "wishlistAdd", u, k, None, None)

wishlistDelete(w, u, k) == Begin(w, "wishlistDelete", u, k, None, None)

updateConference(w, u, k, ma, sa) == Begin(w, "update", u, k, ma, sa)

\* The transaction of worker w ends without a commit: its snapshot is dropped.
Finish(w) ==
  /\ pc' = [pc EXCEPT ![w] = "done"]
  /\ snap' = [snap EXCEPT ![w] = NoSnapshot]
  /\ attempt' = [attempt EXCEPT ![w] = 0]
  /\ stale' = [stale EXCEPT ![w] = FALSE]

\* As TxnRaise, were _getProfileFromUser's put not part of the transaction: the
\* Profile it created stays behind when the body raises.
TxnRaiseKeepsProfile(w) ==
  /\ pc[w] = "running"
  /\ LET out == Body(req[w], snap[w]) IN
       /\ out.exc # ""
       /\ result' = [result EXCEPT ![w] = Response(out.exc, out.msg, "", <<>>)]
  /\ profiles' = [profiles EXCEPT ![req[w].user] = getProfileFromUser(@)]
  /\ Finish(w)
  /\ UNCHANGED <<announcements, conferences, sessions, req, linkPre, queryVars, speakerVars>>

\* The body raised: the transaction is rolled back and the exception reaches
\* the caller.
TxnRaise(w) ==
  /\ pc[w] = "running"
  /\ LET out == Body(req[w], snap[w]) IN
       /\ out.exc # ""
       /\ result' = [result EXCEPT ![w] = Response(out.exc, out.msg, "", <<>>)]
  /\ Finish(w)
  /\ UNCHANGED <<announcements, store, req, linkPre, queryVars, speakerVars>>

\* The body returned and the commit goes through: its puts are applied together.
TxnCommit(w) ==
  /\ pc[w] = "running"
  /\ ~TxnConflict(w)
  /\ LET r == req[w]
         out == Body(r, snap[w])
     IN  /\ out.exc = ""
         /\ profiles' = IF out.putProf
                          THEN [profiles EXCEPT ![r.user] = out.prof]
                          ELSE profiles
         /\ conferences' = IF out.putConf
                             THEN [conferences EXCEPT ![r.key] = out.conf]
                             ELSE conferences
         /\ stale' = [Invalidated(w, WriteGroups(r, out)) EXCEPT ![w] = FALSE]
         /\ result' = [result EXCEPT ![w] =
                         Response("", "", out.data, RoundTrip(r, out))]
         /\ linkPre' = LinkPreAfter(r, out)
  /\ pc' = [pc EXCEPT ![w] = "done"]
  /\ snap' = [snap EXCEPT ![w] = NoSnapshot]
  /\ attempt' = [attempt EXCEPT ![w] = 0]
  /\ UNCHANGED <<announcements, sessions, req, queryVars, speakerVars>>

\* The commit conflicted: the function is run again on a fresh snapshot.
TxnRetry(w) ==
  /\ pc[w] = "running"
  /\ Body(req[w], snap[w]).exc = ""
  /\ TxnConflict(w)
  /\ attempt[w] < Retries
  /\ attempt' = [attempt EXCEPT ![w] = @ + 1]
  /\ snap' = [snap EXCEPT ![w] = Read(req[w])]
  /\ stale' = [stale EXCEPT ![w] = FALSE]
  /\ UNCHANGED <<announcements, store, pc, req, result, linkPre, queryVars, speakerVars>>

\* The commit conflicted and no retry is left: TransactionFailedError.
TxnFail(w) ==
  /\ pc[w] = "running"
  /\ Body(req[w], snap[w]).exc = ""
  /\ TxnConflict(w)
  /\ attempt[w] = Retries
  /\ result' = [result EXCEPT ![w] = Response("TransactionFailedError", "", "", <<>>)]
  /\ Finish(w)
  /\ UNCHANGED <<announcements, store, req, linkPre, queryVars, speakerVars>>

\* The response is delivered; the worker is free for the next request.
Respond(w) ==
  /\ pc[w] = "done"
  /\ pc' = [pc EXCEPT ![w] = "idle"]
  /\ req' = [req EXCEPT ![w] = NoRequest]
  /\ snap' = [snap EXCEPT ![w] = NoSnapshot]
  /\ attempt' = [attempt EXCEPT ![w] = 0]
  /\ stale' = [stale EXCEPT ![w] = FALSE]
  /\ result' = [result EXCEPT ![w] = NoResult]
  /\ UNCHANGED <<announcements, store, linkPre, queryVars, speakerVars>>

\* createConference by user u: one put outside any transaction, under a newly
\* allocated key whose parent is u's Profile key.
createConference(u, ma, sa) ==
  /\ \E k \in ConfKeys :
       /\ ConfParent(k) = u
       /\ ~conferences[k].exists
       /\ conferences' = [conferences EXCEPT ![k] = createConferenceObject(u, ma, sa)]
       /\ linkPre' = [v \in Users |-> [c \in ConfKeys |->
                        IF c = k THEN <<>> ELSE linkPre[v][c]]]
  /\ stale' = [v \in Workers |->
                 IF pc[v] = "running" /\ u \in ReadGroups(req[v]) THEN TRUE ELSE stale[v]]
  /\ UNCHANGED <<announcements, profiles, sessions, pc, req, snap, attempt, result, queryVars, speakerVars>>

\* queryConferences: the filters of the request go through _getQuery.
queryConferences ==
  /\ query.state = "none"
  /\ query' = getQuery(filters)
  /\ UNCHANGED <<announcements, store, requestVars, filters, speakerVars>>

\* createSpeaker: one put under a newly allocated key.
createSpeaker(form) ==
  /\ \E k \in SpeakerKeys :
       /\ ~speakers[k].exists
       /\ \A j \in SpeakerKeys : ~speakers[j].exists => (k = "k1" \/ j # "k1")
       /\ speakers' = [speakers EXCEPT ![k] = createSpeakerObject(form)]
  /\ UNCHANGED <<announcements, store, requestVars, queryVars, tasks, consumer, cache>>

\* updateSpeaker: a transaction on the one Speaker; NotFoundException and no
\* put when there is none under the key.
updateSpeaker(k, form) ==
  /\ speakers' = IF speakers[k].exists
                   THEN [speakers EXCEPT ![k] = updateSpeakerObject(@, form)]
                   ELSE speakers
  /\ UNCHANGED <<announcements, store, requestVars, queryVars, tasks, consumer, cache>>

\* As createSession, were the speaker and the conference not looked up before
\* the Session is put and the task added.
CreateSessionUnchecked(k, c) ==
  /\ \E id \in SessionIds :
       /\ ~sessions[id].exists
       /\ \A j \in SessionIds : j < id => sessions[j].exists
       /\ sessions' = [sessions EXCEPT ![id] =
            createSessionObject(SessionTitles[id], k, c)]
       /\ tasks' = [tasks EXCEPT ![id] =
            Task(k, speakers[k].name, SessionTitles[id], c)]
  /\ UNCHANGED <<announcements, profiles, conferences, requestVars, queryVars, speakers,
                 consumer, cache>>

\* createSession: NotFoundException when the speaker or the conference is
\* missing; else the Session is put under the next id and the task is added.
createSession(k, c) ==
  /\ \E id \in SessionIds :
       /\ ~sessions[id].exists
       /\ \A j \in SessionIds : j < id => sessions[j].exists
       /\ IF speakers[k].exists /\ conferences[c].exists
            THEN /\ sessions' = [sessions EXCEPT ![id] =
                      createSessionObject(SessionTitles[id], k, c)]
                 /\ tasks' = [tasks EXCEPT ![id] =
                      Task(k, speakers[k].name, SessionTitles[id], c)]
            ELSE UNCHANGED <<sessions, tasks>>
  /\ UNCHANGED <<announcements, profiles, conferences, requestVars, queryVars, speakers,
                 consumer, cache>>

\* As SetFeaturedSpeaker, were a Speaker that is not in the store put anew,
\* under the task's name and with the task's session.
SetFeaturedSpeakerCreatesSpeaker(t) ==
  /\ tasks[t].enqueued
  /\ consumer[t].pc = "idle"
  /\ Cardinality(Handling) < Cardinality(Workers)
  /\ tasks[t].runs > 0 => Redeliveries < MaxRedeliveries
  /\ cache' = FeaturedSpeaker(tasks[t])
  /\ IF speakers[tasks[t].speakerKey].exists
       THEN /\ consumer' = [consumer EXCEPT ![t] =
                 [pc |-> "put", speaker |-> speakers[tasks[t].speakerKey]]]
            /\ tasks' = tasks
            /\ speakers' = speakers
       ELSE /\ consumer' = consumer
            /\ tasks' = [tasks EXCEPT ![t].runs = @ + 1]
            /\ speakers' = [speakers EXCEPT ![tasks[t].speakerKey] =
                 [exists |-> TRUE, name |-> tasks[t].speakerName,
                  sessions |-> <<tasks[t].sessionName>>, sessions_count |-> 1]]
  /\ UNCHANGED <<announcements, store, requestVars, queryVars>>

\* The queue delivers task t to a free worker, for the first time or once more, and
\* SetFeaturedSpeakerHandler.post runs up to _updateSpeaker's get of the
\* Speaker: the query, the memcache set, the get. With no Speaker under the
\* key _updateSpeaker returns False and the run is over.
SetFeaturedSpeaker(t) ==
  /\ tasks[t].enqueued
  /\ consumer[t].pc = "idle"
  /\ Cardinality(Handling) < Cardinality(Workers)
  /\ tasks[t].runs > 0 => Redeliveries < MaxRedeliveries
  /\ cache' = FeaturedSpeaker(tasks[t])
  /\ IF speakers[tasks[t].speakerKey].exists
       THEN /\ consumer' = [consumer EXCEPT ![t] =
                 [pc |-> "put", speaker |-> speakers[tasks[t].speakerKey]]]
            /\ tasks' = tasks
       ELSE /\ consumer' = consumer
            /\ tasks' = [tasks EXCEPT ![t].runs = @ + 1]
  /\ UNCHANGED <<announcements, store, requestVars, queryVars, speakers>>

\* As PutSpeaker, were the Session of the task rewritten with the Speaker's
\* name in place of its own.
PutSpeakerRenamesSession(t) ==
  /\ consumer[t].pc = "put"
  /\ speakers' = [speakers EXCEPT ![tasks[t].speakerKey] =
       updateSpeakerSessions(consumer[t].speaker, tasks[t].sessionName)]
  /\ sessions' = [sessions EXCEPT ![t].name = tasks[t].speakerName]
  /\ consumer' = [consumer EXCEPT ![t] = IdleConsumer]
  /\ tasks' = [tasks EXCEPT ![t].runs = @ + 1]
  /\ UNCHANGED <<announcements, profiles, conferences, requestVars, queryVars, cache>>

\* _updateSpeaker puts the Speaker it read, with the session name appended
\* and the count set; the run of the task is over.
PutSpeaker(t) ==
  /\ consumer[t].pc = "put"
  /\ speakers' = [speakers EXCEPT ![tasks[t].speakerKey] =
       updateSpeakerSessions(consumer[t].speaker, tasks[t].sessionName)]
  /\ consumer' = [consumer EXCEPT ![t] = IdleConsumer]
  /\ tasks' = [tasks EXCEPT ![t].runs = @ + 1]
  /\ UNCHANGED <<announcements, store, requestVars, queryVars, cache>>

\* memcache.get(key) or "": the text under the key, and the empty text when
\* there is no entry or the entry is itself empty.
GetOrEmpty(entry) ==
  LET got == IF entry.set THEN <<entry.value>> ELSE None IN
  IF got = None \/ got[1] = <<>> THEN <<>> ELSE got[1]

\* A StringMessage response.
StringMessage(data) == Response("", "", data, <<>>)

\* As getFeaturedSpeaker, were the entry taken out of memcache by the read.
GetFeaturedSpeakerOnce(w) ==
  /\ pc[w] = "idle"
  /\ pc' = [pc EXCEPT ![w] = "done"]
  /\ req' = [req EXCEPT ![w] = [NoRequest EXCEPT !.op = "getFeaturedSpeaker"]]
  /\ result' = [result EXCEPT ![w] = StringMessage(GetOrEmpty(cache))]
  /\ cache' = NoCache
  /\ UNCHANGED <<announcements, store, snap, attempt, stale, linkPre, queryVars, speakers,
                 tasks, consumer>>

\* getFeaturedSpeaker: the response carries memcache's FEATURED_SPEAKER entry.
getFeaturedSpeaker(w) ==
  /\ pc[w] = "idle"
  /\ pc' = [pc EXCEPT ![w] = "done"]
  /\ req' = [req EXCEPT ![w] = [NoRequest EXCEPT !.op = "getFeaturedSpeaker"]]
  /\ result' = [result EXCEPT ![w] = StringMessage(GetOrEmpty(cache))]
  /\ UNCHANGED <<announcements, store, snap, attempt, stale, linkPre, queryVars, speakerVars>>

\* ------------------------------------------------------------- announcements
\* Conference.seatsAvailable <= 5 in _cacheAnnouncement's query.
NearlySoldOutSeats == 5

\* The name each conference is created with, and the keys in key order.
ConferenceNames == [c \in ConfKeys |-> IF c = "c1" THEN "PyCon" ELSE "DevFest"]

ConfKeyOrder == <<"c1", "c2">>

\* The names of the conferences with seats seats left, in key order.
RECURSIVE NamesWithSeats(_, _)
NamesWithSeats(seats, i) ==
  IF i > Len(ConfKeyOrder) THEN <<>>
  ELSE (IF /\ conferences[ConfKeyOrder[i]].exists
           /\ conferences[ConfKeyOrder[i]].seatsAvailable = seats
          THEN <<ConferenceNames[ConfKeyOrder[i]]>> ELSE <<>>)
       \o NamesWithSeats(seats, i + 1)

\* The names fetched by a query for the conferences with low <= seatsAvailable
\* <= high, in the order of the index: by seatsAvailable, then by key.
RECURSIVE NamesBetween(_, _)
NamesBetween(low, high) ==
  IF low > high THEN <<>>
  ELSE NamesWithSeats(low, 1) \o NamesBetween(low + 1, high)

\* As NearlySoldOut, were the conferences with no seat left fetched too.
NearlySoldOutOrFull == NamesBetween(0, NearlySoldOutSeats)

\* Conference.query(seatsAvailable <= 5, seatsAvailable > 0)
\*   .fetch(projection=[Conference.name])
NearlySoldOut == NamesBetween(1, NearlySoldOutSeats)

\* ANNOUNCEMENT_TPL % ', '.join(names)
ANNOUNCEMENT_TPL(names) ==
  <<"Last chance to attend! The following conferences are nearly sold out: ">>
    \o Join(names)

\* The cron request /crons/set_announcement on worker w: _cacheAnnouncement sets
\* the entry when the query finds a conference and deletes it when it finds
\* none; the response carries what _cacheAnnouncement returned.
cacheAnnouncement(w) ==
  /\ pc[w] = "idle"
  /\ pc' = [pc EXCEPT ![w] = "done"]
  /\ req' = [req EXCEPT ![w] = [NoRequest EXCEPT !.op = "cacheAnnouncement"]]
  /\ LET confs == NearlySoldOut IN
       IF confs # <<>>
         THEN /\ announcements' = [set |-> TRUE, value |-> ANNOUNCEMENT_TPL(confs)]
              /\ result' = [result EXCEPT ![w] = StringMessage(ANNOUNCEMENT_TPL(confs))]
         ELSE /\ announcements' = NoCache
              /\ result' = [result EXCEPT ![w] = StringMessage(<<>>)]
  /\ UNCHANGED <<store, snap, attempt, stale, linkPre, queryVars, speakerVars>>

\* ------------------------------------------------------------- specification
\* The store holds conference c1, created by u1 with seatsAvailable equal to
\* maxAttendees, and its session s1; no Profile has been created yet.
Init ==
  /\ profiles = [u \in Users |-> NoProfile]
  /\ \E ma \in 1..MaxAttendees :
       conferences = [c \in ConfKeys |->
         IF c = "c1" THEN createConferenceObject("u1", <<ma>>, None) ELSE NoConference]
  /\ sessions = [s \in SessionKeys |-> IF s = "s1" THEN [NoSession EXCEPT !.exists = TRUE] ELSE NoSession]
  /\ pc = [w \in Workers |-> "idle"]
  /\ req = [w \in Workers |-> NoRequest]
  /\ snap = [w \in Workers |-> NoSnapshot]
  /\ attempt = [w \in Workers |-> 0]
  /\ stale = [w \in Workers |-> FALSE]
  /\ result = [w \in Workers |-> NoResult]
  /\ linkPre = [u \in Users |-> [c \in ConfKeys |-> <<>>]]
  /\ NoQueryRequest
  /\ NoSpeakers
  /\ announcements = NoCache

\* The transaction steps of the workers.
Txn ==
  \/ \E w \in Workers : TxnRaise(w)
  \/ \E w \in Workers : TxnCommit(w)
  \/ \E w \in Workers : TxnRetry(w)
  \/ \E w \in Workers : TxnFail(w)
  \/ \E w \in Workers : Respond(w)

\* Registration and wishlist requests, in any interleaving.
Next ==
  \/ \E w \in Workers, u \in Users, k \in ConfKeys : registerForConference(w, u, k)
  \/ \E w \in Workers, u \in Users, k \in ConfKeys : unregisterFromConference(w, u, k)
  \/ \E w \in Workers, u \in Users, k \in SessionKeys : wishlistAdd(w, u, k)
  \/ \E w \in Workers, u \in Users, k \in SessionKeys : wishlistDelete(w, u, k)
  \/ Txn

Spec == Init /\ [][Next]_vars

\* Conference creation and update together with registration, the requests
\* served one after another; a creation may still fall inside a transaction.
NextConference ==
  \/ \E u \in Users, k \in ConfKeys : registerForConference("w1", u, k)
  \/ \E u \in Users, k \in ConfKeys : unregisterFromConference("w1", u, k)
  \/ \E u \in Users, k \in ConfKeys,
        ma \in Opt(0..MaxAttendees), sa \in Opt(0..MaxAttendees) :
          updateConference("w1", u, k, ma, sa)
  \/ \E u \in Users, ma \in Opt(0..MaxAttendees), sa \in Opt(0..MaxAttendees) :
       createConference(u, ma, sa)
  \/ TxnRaise("w1")
  \/ TxnCommit("w1")
  \/ TxnRetry("w1")
  \/ Respond("w1")

SpecConference == Init /\ [][NextConference]_vars

\* Two registerForConference calls by two different users, one per worker, for
\* a conference with maxAttendees = 1; the callers' Profiles may or may not
\* exist yet, and may hold a wishlist; u2 may have a conference of its own.
UserOf(w) == IF w = "w1" THEN "u1" ELSE "u2"

InitOneSeat ==
  /\ profiles \in [Users -> {NoProfile, getProfileFromUser(NoProfile),
                             [getProfileFromUser(NoProfile) EXCEPT
                                !.sessionKeysOnWishlist = <<"s1">>]}]
  /\ \E other \in {NoConference} \cup
                  {createConferenceObject("u2", <<ma>>, None) : ma \in 1..MaxAttendees} :
       conferences = [c \in ConfKeys |->
         IF c = "c1" THEN createConferenceObject("u1", <<1>>, None) ELSE other]
  /\ sessions = [s \in SessionKeys |-> IF s = "s1" THEN [NoSession EXCEPT !.exists = TRUE] ELSE NoSession]
  /\ pc = [w \in Workers |-> "idle"]
  /\ req = [w \in Workers |-> NoRequest]
  /\ snap = [w \in Workers |-> NoSnapshot]
  /\ attempt = [w \in Workers |-> 0]
  /\ stale = [w \in Workers |-> FALSE]
  /\ result = [w \in Workers |-> NoResult]
  /\ linkPre = [u \in Users |-> [c \in ConfKeys |-> <<>>]]
  /\ NoQueryRequest
  /\ NoSpeakers
  /\ announcements = NoCache

NextOneSeat ==
  \/ \E w \in Workers : registerForConference(w, UserOf(w), "c1")
  \/ \E w \in Workers : TxnRaise(w)
  \/ \E w \in Workers : TxnCommit(w)
  \/ \E w \in Workers : TxnRetry(w)

SpecOneSeat == InitOneSeat /\ [][NextOneSeat]_vars

\* A queryConferences request with any list of up to MaxFilters filters,
\* against the store of Init.
InitQuery ==
  /\ profiles = [u \in Users |-> NoProfile]
  /\ conferences = [c \in ConfKeys |->
       IF c = "c1" THEN createConferenceObject("u1", <<1>>, None) ELSE NoConference]
  /\ sessions = [s \in SessionKeys |-> NoSession]
  /\ pc = [w \in Workers |-> "idle"]
  /\ req = [w \in Workers |-> NoRequest]
  /\ snap = [w \in Workers |-> NoSnapshot]
  /\ attempt = [w \in Workers |-> 0]
  /\ stale = [w \in Workers |-> FALSE]
  /\ result = [w \in Workers |-> NoResult]
  /\ linkPre = [u \in Users |-> [c \in ConfKeys |-> <<>>]]
  /\ \E n \in 0..MaxFilters : filters \in [1..n -> QueryForms]
  /\ query = NoQuery
  /\ NoSpeakers
  /\ announcements = NoCache

NextQuery == queryConferences

SpecQuery == InitQuery /\ [][NextQuery]_vars

\* The featured-speaker pipeline: both conferences exist and each speaker has
\* been created with a name alone; sessions are created and their tasks
\* delivered in any interleaving.
InitPipeline ==
  /\ profiles = [u \in Users |-> NoProfile]
  /\ conferences = [c \in ConfKeys |-> createConferenceObject(ConfParent(c), <<1>>, None)]
  /\ sessions = [id \in SessionIds |-> NoSession]
  /\ pc = [w \in Workers |-> "idle"]
  /\ req = [w \in Workers |-> NoRequest]
  /\ snap = [w \in Workers |-> NoSnapshot]
  /\ attempt = [w \in Workers |-> 0]
  /\ stale = [w \in Workers |-> FALSE]
  /\ result = [w \in Workers |-> NoResult]
  /\ linkPre = [u \in Users |-> [c \in ConfKeys |-> <<>>]]
  /\ NoQueryRequest
  /\ speakers = [k \in SpeakerKeys |->
       createSpeakerObject([name |-> IF k = "k1" THEN "Ann" ELSE "Bob",
                            sessions |-> <<>>, sessions_count |-> None])]
  /\ tasks = [t \in SessionIds |-> NoTask]
  /\ consumer = [t \in SessionIds |-> IdleConsumer]
  /\ cache = NoCache
  /\ announcements = NoCache

NextPipeline ==
  \/ \E k \in SpeakerKeys, c \in ConfKeys : createSession(k, c)
  \/ \E t \in SessionIds : SetFeaturedSpeaker(t)
  \/ \E t \in SessionIds : PutSpeaker(t)

SpecPipeline == InitPipeline /\ [][NextPipeline]_vars

\* One speaker, created with any form and updated with any form that leaves
\* the name alone, its sessions at conference c1 and the tasks of those
\* sessions.
InitSpeaker ==
  /\ profiles = [u \in Users |-> NoProfile]
  /\ conferences = [c \in ConfKeys |-> createConferenceObject(ConfParent(c), <<1>>, None)]
  /\ sessions = [id \in SessionIds |-> NoSession]
  /\ pc = [w \in Workers |-> "idle"]
  /\ req = [w \in Workers |-> NoRequest]
  /\ snap = [w \in Workers |-> NoSnapshot]
  /\ attempt = [w \in Workers |-> 0]
  /\ stale = [w \in Workers |-> FALSE]
  /\ result = [w \in Workers |-> NoResult]
  /\ linkPre = [u \in Users |-> [c \in ConfKeys |-> <<>>]]
  /\ NoQueryRequest
  /\ NoSpeakers
  /\ announcements = NoCache

NextSpeaker ==
  \/ \E form \in SpeakerForms : ~speakers["k1"].exists /\ createSpeaker(form)
  \/ \E k \in SpeakerKeys, form \in {f \in SpeakerUpdateForms : f.name = None} :
       updateSpeaker(k, form)
  \/ \E k \in SpeakerKeys : createSession(k, "c1")
  \/ \E t \in SessionIds : SetFeaturedSpeaker(t)
  \/ \E t \in SessionIds : PutSpeaker(t)

SpecSpeaker == InitSpeaker /\ [][NextSpeaker]_vars

\* ------------------------------------------------------------- properties
\* The users registered for conference c.
Registered(c) == {u \in Users : Contains(profiles[u].conferenceKeysToAttend, c)}

\* Worker w's call ends in this step.
Ends(w) == pc[w] = "running" /\ pc'[w] = "done"

\* Worker w's call ends in this step with a response of the handler (the store
\* did not abort the transaction for write conflicts).
Answers(w) == Ends(w) /\ result'[w].exc # "TransactionFailedError"

\* C1: with one seat and two concurrent registerForConference calls by two
\* users, the two are never both registered, and when both calls have ended
\* one has returned True and the other has failed for want of seats.
C1_OneSeatOneWinner ==
  /\ Registered("c1") # Users
  /\ (\A w \in Workers : pc[w] = "done") =>
       \E w \in Workers :
         /\ result[w].exc = "" /\ result[w].data = "True"
         /\ \A v \in Workers \ {w} :
              result[v].exc = "ConflictException" /\ result[v].msg = NoSeats

\* The race: one call has committed while the other, begun before that commit,
\* still holds a snapshot with the seat free.
C1_Witness ==
  \E w \in Workers, v \in Workers :
    /\ pc[w] = "done" /\ result[w].data = "True"
    /\ pc[v] = "running" /\ stale[v] /\ snap[v].conf.seatsAvailable = 1
    /\ conferences["c1"].seatsAvailable = 0

\* C2: registration and unregistration keep the two entities in step: for every
\* conference, maxAttendees - seatsAvailable is the number of profiles that
\* hold its key, whatever the interleaving; and a call that fails or is
\* aborted changes nothing in the store.
C2_SeatsMatchRegistrations ==
  /\ [](\A c \in ConfKeys :
         conferences[c].exists =>
           conferences[c].maxAttendees - conferences[c].seatsAvailable
             = Cardinality(Registered(c)))
  /\ [][\A w \in Workers :
         (Ends(w) /\ result'[w].exc # "") => store' = store]_vars

\* Two users are registered for one conference, and a call has just failed.
C2_Witness ==
  /\ \E c \in ConfKeys : Registered(c) = Users
  /\ \E w \in Workers : pc[w] = "done" /\ result[w].exc = "TransactionFailedError"

\* C3: every stored conference has 0 <= seatsAvailable <= maxAttendees.
C3_SeatsWithinBounds ==
  \A c \in ConfKeys :
    conferences[c].exists =>
      /\ 0 <= conferences[c].seatsAvailable
      /\ conferences[c].seatsAvailable <= conferences[c].maxAttendees

\* Worker w's registerForConference call read a conference with no seat left.
RegistersWhenFull(w) ==
  /\ req[w].op = "register"
  /\ snap[w].conf.exists
  /\ snap[w].conf.seatsAvailable = 0

\* C4 as claimed: registerForConference for a conference with seatsAvailable = 0
\* fails for want of seats, for every user, and changes nothing.
C4_FullRejectsEveryUser ==
  [][\A w \in Workers :
       (Ends(w) /\ RegistersWhenFull(w)) =>
         /\ result'[w].exc = "ConflictException"
         /\ result'[w].msg = NoSeats
         /\ store' = store]_vars

\* C4 as amended: registerForConference for a conference with seatsAvailable = 0
\* fails and changes nothing; it fails for want of seats when the user is not
\* registered for the conference, and as a duplicate registration when the
\* user is.
C4_FullRejects ==
  [][\A w \in Workers :
       (Ends(w) /\ RegistersWhenFull(w)) =>
         /\ result'[w].exc = "ConflictException"
         /\ result'[w].msg =
              IF Contains(snap[w].prof.conferenceKeysToAttend, req[w].key)
                THEN AlreadyRegistered ELSE NoSeats
         /\ store' = store]_vars

\* A registration has been refused for want of seats while the conference is full.
C4_Witness ==
  \E w \in Workers :
    /\ pc[w] = "done" /\ req[w].op = "register" /\ result[w].msg = NoSeats
    /\ conferences[req[w].key].exists
    /\ conferences[req[w].key].seatsAvailable = 0

\* The number of times key k occurs in list.
Count(list, k) == Cardinality({i \in 1..Len(list) : list[i] = k})

\* C5: registerForConference by a user who is already registered fails with the
\* duplicate-registration ConflictException and changes nothing, so the key
\* is never twice in a profile and the seats taken are one per registered user.
C5_DuplicateRegistrationRejected ==
  /\ [](\A u \in Users, c \in ConfKeys :
          Count(profiles[u].conferenceKeysToAttend, c) <= 1)
  /\ [][\A w \in Workers :
          (/\ Ends(w)
           /\ req[w].op = "register"
           /\ snap[w].conf.exists
           /\ Contains(snap[w].prof.conferenceKeysToAttend, req[w].key)) =>
            /\ result'[w].exc = "ConflictException"
            /\ result'[w].msg = AlreadyRegistered
            /\ store' = store
            /\ conferences'[req[w].key].maxAttendees
                 - conferences'[req[w].key].seatsAvailable
                 = Cardinality(Registered(req[w].key)')]_vars

\* A second registration has been refused and the user is registered once.
C5_Witness ==
  \E w \in Workers :
    /\ pc[w] = "done" /\ req[w].op = "register"
    /\ result[w].msg = AlreadyRegistered
    /\ Count(profiles[req[w].user].conferenceKeysToAttend, req[w].key) = 1

\* Worker w's unregisterFromConference call read an existing conference.
Unregisters(w) == req[w].op = "unregister" /\ snap[w].conf.exists

C7_RoundTrip ==
  \A w \in Workers :
    result[w].roundTrip # <<>> =>
      result[w].roundTrip[1].after = result[w].roundTrip[1].before

\* A round trip has been completed and the conference shows the seats it had
\* before the register.
C7_Witness ==
  \E w \in Workers :
    /\ pc[w] = "done" /\ req[w].op = "unregister"
    /\ result[w].roundTrip # <<>>
    /\ result[w].roundTrip[1].before.seatsAvailable
         = conferences[req[w].key].seatsAvailable

TargetMissing(w) ==
  \/ req[w].op \in {"register", "unregister"} /\ ~snap[w].conf.exists
  \/ req[w].op \in {"wishlistAdd", "wishlistDelete"} /\ ~snap[w].sess.exists

\* C9: a registration, unregistration, wishlist add or wishlist removal that
\* names a key with no entity fails with NotFoundException and leaves the
\* store as it was: a Profile created inside the transaction is not kept.
C9_MissingTargetNotFound ==
  [][\A w \in Workers :
       (Ends(w) /\ TargetMissing(w)) =>
         /\ result'[w].exc = "NotFoundException"
         /\ store' = store]_vars

\* A call for an unknown key has failed and its user still has no Profile.
C9_Witness ==
  \E w \in Workers :
    /\ pc[w] = "done" /\ result[w].exc = "NotFoundException"
    /\ req[w].op \in {"unregister", "wishlistAdd"}
    /\ ~profiles[req[w].user].exists

\* C10: addSessionToWishlist for a session already on the user's wishlist
\* fails with a ConflictException that reaches the caller, and leaves the
\* wishlist as it was.
C10_DuplicateWishRaises ==
  [][\A w \in Workers :
       (/\ Ends(w)
        /\ req[w].op = "wishlistAdd"
        /\ snap[w].sess.exists
        /\ Contains(snap[w].prof.sessionKeysOnWishlist, req[w].key)) =>
         /\ result'[w].exc = "ConflictException"
         /\ profiles' = profiles]_vars

\* C11: deleteSessionFromWishlist for an existing session that is not on the
\* user's wishlist (a repeated removal included) fails with a NotFoundException
\* that reaches the caller, and leaves the wishlist as it was.
C11_AbsentWishRaises ==
  [][\A w \in Workers :
       (/\ Answers(w)
        /\ req[w].op = "wishlistDelete"
        /\ snap[w].sess.exists
        /\ ~Contains(snap[w].prof.sessionKeysOnWishlist, req[w].key)) =>
         /\ result'[w].exc = "NotFoundException"
         /\ profiles'[req[w].user].sessionKeysOnWishlist
              = profiles[req[w].user].sessionKeysOnWishlist]_vars

\* C12: in every reachable state, whatever the interleaving of register,
\* unregister, wishlist add and wishlist removal calls, no Profile holds a
\* conference key twice in conferenceKeysToAttend or a session key twice in
\* sessionKeysOnWishlist.
C12_NoDuplicateReferences ==
  \A u \in Users :
    /\ \A c \in ConfKeys : Count(profiles[u].conferenceKeysToAttend, c) <= 1
    /\ \A s \in SessionKeys : Count(profiles[u].sessionKeysOnWishlist, s) <= 1

\* A user registered for a conference holds a session on the wishlist, and
\* that user's second addSessionToWishlist call for the session has returned.
C12_Witness ==
  \E w \in Workers :
    /\ pc[w] = "done" /\ req[w].op = "wishlistAdd" /\ result[w].data = "False"
    /\ Contains(profiles[req[w].user].sessionKeysOnWishlist, req[w].key)
    /\ profiles[req[w].user].conferenceKeysToAttend # <<>>

\* C13: every conference is created with seatsAvailable equal to maxAttendees,
\* whatever the request carries: maxAttendees omitted or given, seatsAvailable
\* omitted or given.
C13_CreatedWithAllSeats ==
  [][\A c \in ConfKeys :
       (~conferences[c].exists /\ conferences'[c].exists) =>
         conferences'[c].seatsAvailable = conferences'[c].maxAttendees]_vars

\* Filter f names a field of FIELDS and an operator of OPERATORS.
Known(f) == f.field \in DOMAIN FIELDS /\ f.operator \in DOMAIN OPERATORS

\* The places of the list fs that hold a known filter whose operator is not
\* the equality, and the fields those filters are on.
NonEqualities(fs) == {i \in 1..Len(fs) : Known(fs[i]) /\ fs[i].operator # "EQ"}

InequalityFields(fs) == {fs[i].field : i \in NonEqualities(fs)}

\* The first place of fs with an unknown field or operator, and the first
\* place with a non-equality on a field other than that of an earlier one;
\* Len(fs) + 1 where there is none.
Least(S, fs) == IF S = {} THEN Len(fs) + 1 ELSE CHOOSE i \in S : \A j \in S : i <= j

FirstUnknown(fs) == Least({i \in 1..Len(fs) : ~Known(fs[i])}, fs)

SecondInequality(fs) ==
  Least({i \in NonEqualities(fs) :
           \E j \in NonEqualities(fs) : j < i /\ fs[j].field # fs[i].field}, fs)

\* _getQuery has run and raised the BadRequestException with message msg: no
\* query has come of the filters.
Rejected(msg) ==
  /\ query.state = "raised"
  /\ query.exc = "BadRequestException" /\ query.msg = msg
  /\ query.orders = <<>> /\ query.nodes = <<>>

\* C14 as claimed: every list of filters with non-equality operators on two
\* distinct fields is refused with the one-inequality-field error, and no
\* query comes of it.
C14_TwoInequalityFieldsRefused ==
  (query.state # "none" /\ Cardinality(InequalityFields(filters)) >= 2) =>
    Rejected(OneInequalityField)

\* C14 as amended: every list of filters with non-equality operators on two
\* distinct fields is refused and no query comes of it; the error is the
\* one-inequality-field error when no filter with an unknown field or operator
\* comes before the first non-equality on a second field, and the
\* invalid-filter error when one does.
C14_TwoInequalityFieldsRefusedInOrder ==
  (query.state # "none" /\ Cardinality(InequalityFields(filters)) >= 2) =>
    IF SecondInequality(filters) < FirstUnknown(filters)
      THEN Rejected(OneInequalityField)
      ELSE Rejected(InvalidFilter)

\* Two non-equality filters on distinct fields with an equality filter between
\* them have been refused with the one-inequality-field error.
C14_Witness ==
  /\ Rejected(OneInequalityField)
  /\ Len(filters) = 3
  /\ NonEqualities(filters) = {1, 3}
  /\ Known(filters[2])

\* C16 as claimed: every list of filters with a field outside FIELDS or an
\* operator outside OPERATORS is refused with the invalid-filter error, and no
\* query comes of it.
C16_UnknownNameRefused ==
  (query.state # "none" /\ \E i \in 1..Len(filters) : ~Known(filters[i])) =>
    Rejected(InvalidFilter)

\* C16 as amended: every list of filters with a field outside FIELDS or an
\* operator outside OPERATORS is refused and no query comes of it; the error
\* is the invalid-filter error unless non-equality operators on two distinct
\* fields come before the first such filter, and the one-inequality-field
\* error when they do.
C16_UnknownNameRefusedInOrder ==
  (query.state # "none" /\ \E i \in 1..Len(filters) : ~Known(filters[i])) =>
    IF FirstUnknown(filters) < SecondInequality(filters)
      THEN Rejected(InvalidFilter)
      ELSE Rejected(OneInequalityField)

\* A list whose last filter alone has an unknown operator, after two filters
\* that would have made a query, has been refused with the invalid-filter error.
C16_Witness ==
  /\ Rejected(InvalidFilter)
  /\ Len(filters) = 3
  /\ Known(filters[1]) /\ Known(filters[2])
  /\ filters[3].field \in DOMAIN FIELDS /\ filters[3].operator \notin DOMAIN OPERATORS

\* A list of filters is valid: every field and operator is known, the value of
\* every filter on month or maxAttendees is the text of a number, and at most
\* one field bears non-equality operators.
ValidFilters(fs) ==
  /\ \A i \in 1..Len(fs) :
       /\ Known(fs[i])
       /\ fs[i].field \in {"MONTH", "MAX_ATTENDEES"} => int(fs[i].value) # None
  /\ Cardinality(InequalityFields(fs)) <= 1

\* C15: for every valid list of filters, the query is sorted by the one field
\* that bears non-equality operators and then by name, and by name alone when
\* no filter has a non-equality operator (the empty list included).
C15_SortOrder ==
  (query.state # "none" /\ ValidFilters(filters)) =>
    /\ query.state = "returned"
    /\ \A f \in InequalityFields(filters) : query.orders = <<FIELDS[f], "name">>
    /\ InequalityFields(filters) = {} => query.orders = <<"name">>

\* A query with two non-equality filters on month and an equality filter on
\* city is sorted by month, then name.
C15_Witness ==
  /\ query.state = "returned"
  /\ Len(filters) = 3
  /\ Cardinality(NonEqualities(filters)) = 2
  /\ InequalityFields(filters) = {"MONTH"}
  /\ \E i \in 1..3 : filters[i].field = "CITY"
  /\ query.orders = <<"month", "name">>

\* C17: for every valid list of filters, the query carries one node per
\* filter, in the order of the list, each with the filter's field, operator
\* and value; two filters on one field are two nodes, not an error.
C17_OneNodePerFilter ==
  (query.state # "none" /\ ValidFilters(filters)) =>
    /\ query.state = "returned"
    /\ Len(query.nodes) = Len(filters)
    /\ \A i \in 1..Len(filters) :
         /\ query.nodes[i].field = FIELDS[filters[i].field]
         /\ query.nodes[i].operator = OPERATORS[filters[i].operator]
         /\ IF filters[i].field \in {"MONTH", "MAX_ATTENDEES"}
              THEN query.nodes[i].value.number = int(filters[i].value)
              ELSE query.nodes[i].value.text = filters[i].value

\* A query made of two filters on month and one on city carries three nodes.
C17_Witness ==
  /\ query.state = "returned"
  /\ Len(filters) = 3 /\ Len(query.nodes) = 3
  /\ \E i, j \in 1..3 :
       /\ i # j
       /\ filters[i].field = "MONTH" /\ filters[j].field = "MONTH"
       /\ query.nodes[i].value.number = <<12>> /\ query.nodes[j].value.number = <<12>>
  /\ \E i \in 1..3 : filters[i].field = "CITY"

\* Task t's handler takes a step: it starts a run, or ends one with its put.
Consumes(t) == consumer'[t] # consumer[t] \/ tasks'[t].runs # tasks[t].runs

\* The names of the sessions of speaker k at conference c.
SessionsOf(k, c) ==
  {sessions[id].name : id \in {i \in DOMAIN sessions :
     /\ sessions[i].exists
     /\ sessions[i].speakerKey = k
     /\ sessions[i].websafeConferenceKey = c}}

\* The pieces of a text that are not the ", " between two names.
Pieces(text) == {text[i] : i \in {j \in 1..Len(text) : text[j] # ", "}}

\* C18: when the handler of a task for speaker S and conference C runs and S
\* has more than one session in C, the cache entry is set to a text that
\* begins with the name of S and lists the name of every session of S in C,
\* each once; when S has at most one session in C the entry is left as it was.
C18_FeaturedSpeakerPublished ==
  [][\A t \in SessionIds :
       (Consumes(t) /\ consumer[t].pc = "idle") =>
         LET names == SessionsOf(tasks[t].speakerKey, tasks[t].websafeConferenceKey)
         IN  IF Cardinality(names) > 1
               THEN /\ cache'.set
                    /\ Head(cache'.value) = tasks[t].speakerName
                    /\ Pieces(Tail(Tail(cache'.value))) = names
                    /\ Len(cache'.value) = 2 * Cardinality(names) + 1
               ELSE cache' = cache]_vars

\* The handler of the task of Ann's third session at conference c1 has run,
\* and the entry lists her three sessions there.
C18_Witness ==
  /\ cache.set
  /\ cache.value = Announcement("Ann", <<"Keynote", "Panel", "Workshop">>)
  /\ tasks[3].runs > 0
  /\ tasks[3].speakerKey = "k1" /\ tasks[3].websafeConferenceKey = "c1"

\* C19: a further delivery of a task whose handler has already run once
\* changes no Speaker: the sessions list gains no second copy of the session
\* name and sessions_count is not raised a second time.
C19_RedeliveryChangesNoSpeaker ==
  [][\A t \in SessionIds :
       (Consumes(t) /\ tasks[t].runs >= 1) => speakers' = speakers]_vars

\* C20: in every reachable state, after any sequence of createSpeaker,
\* updateSpeaker and task handler runs, the sessions_count of every stored
\* Speaker is the length of its sessions list.
C20_CountIsLength ==
  \A k \in SpeakerKeys :
    speakers[k].exists => speakers[k].sessions_count = Len(speakers[k].sessions)

\* C27: registerForConference by a user who is already registered for the
\* conference, made while the conference has seatsAvailable = 0, is refused as
\* a duplicate registration (the already-registered check comes before the
\* seats check) and leaves the Profile and the Conference unchanged.
C27_DuplicateBeforeCapacity ==
  [][\A w \in Workers :
       (/\ Ends(w) /\ RegistersWhenFull(w)
        /\ snap[w].prof.exists
        /\ Contains(snap[w].prof.conferenceKeysToAttend, req[w].key)) =>
         /\ result'[w].exc = "ConflictException"
         /\ result'[w].msg = AlreadyRegistered
         /\ profiles' = profiles
         /\ conferences' = conferences]_vars

\* A registered user's second registration has been refused as a duplicate
\* while the conference had no seat left.
C27_Witness ==
  \E w \in Workers :
    /\ pc[w] = "done" /\ req[w].op = "register"
    /\ result[w].msg = AlreadyRegistered
    /\ \A v \in Workers \ {w} : pc[v] = "idle"
    /\ Contains(profiles[req[w].user].conferenceKeysToAttend, req[w].key)
    /\ conferences[req[w].key].exists
    /\ conferences[req[w].key].seatsAvailable = 0

\* C28: updateConference by a user other than the conference's organizer fails
\* with ForbiddenException and leaves the conference unchanged; updateConference
\* on a conference that does not exist fails with NotFoundException and
\* changes nothing.
C28_UpdateOnlyByOrganizer ==
  [][\A w \in Workers :
       (Ends(w) /\ req[w].op = "update") =>
         /\ ~snap[w].conf.exists =>
              /\ result'[w].exc = "NotFoundException"
              /\ store' = store
         /\ (snap[w].conf.exists
              /\ req[w].user # snap[w].conf.organizerUserId) =>
              /\ result'[w].exc = "ForbiddenException"
              /\ conferences' = conferences
              /\ profiles' = profiles]_vars

\* An update asking for other seat counts has been refused to a user who is not
\* the organizer of the conference, and one on a missing conference has been
\* refused too.
C28_Witness ==
  \E w \in Workers :
    /\ pc[w] = "done" /\ req[w].op = "update"
    /\ result[w].exc = "ForbiddenException"
    /\ conferences[req[w].key].exists
    /\ conferences[req[w].key].organizerUserId # req[w].user
    /\ req[w].maxAttendees # None
    /\ req[w].maxAttendees[1] # conferences[req[w].key].maxAttendees
    /\ \E k \in ConfKeys : ~conferences[k].exists

\* ------------------------------------------------- a Speaker no longer stored

\* The sessions 1..n, each of some speaker at some conference, with the task of
\* each still in the queue.
SessionsStored(n, speakerOf, confOf) ==
  [id \in SessionIds |->
     IF id <= n
       THEN createSessionObject(SessionTitles[id], speakerOf[id], confOf[id])
       ELSE NoSession]

TasksPending(n, speakerOf, confOf) ==
  [id \in SessionIds |->
     IF id <= n
       THEN Task(speakerOf[id], IF speakerOf[id] = "k1" THEN "Ann" ELSE "Bob",
                 SessionTitles[id], confOf[id])
       ELSE NoTask]

\* Sessions were created for Ann and Bob and their tasks are waiting; Bob's
\* Speaker entity has since gone from the store (no endpoint removes one:
\* _updateSpeaker's "if speaker:" is for an entity removed by other means).
InitLostSpeaker ==
  /\ profiles = [u \in Users |-> NoProfile]
  /\ conferences = [c \in ConfKeys |-> createConferenceObject(ConfParent(c), <<1>>, None)]
  /\ pc = [w \in Workers |-> "idle"]
  /\ req = [w \in Workers |-> NoRequest]
  /\ snap = [w \in Workers |-> NoSnapshot]
  /\ attempt = [w \in Workers |-> 0]
  /\ stale = [w \in Workers |-> FALSE]
  /\ result = [w \in Workers |-> NoResult]
  /\ linkPre = [u \in Users |-> [c \in ConfKeys |-> <<>>]]
  /\ NoQueryRequest
  /\ speakers = [k \in SpeakerKeys |->
       IF k = "k1"
         THEN createSpeakerObject([name |-> "Ann", sessions |-> <<>>,
                                   sessions_count |-> None])
         ELSE NoSpeaker]
  /\ \E n \in 0..MaxSessions :
       \E speakerOf \in [1..n -> SpeakerKeys], confOf \in [1..n -> ConfKeys] :
         /\ sessions = SessionsStored(n, speakerOf, confOf)
         /\ tasks = TasksPending(n, speakerOf, confOf)
  /\ consumer = [t \in SessionIds |-> IdleConsumer]
  /\ cache = NoCache
  /\ announcements = NoCache

SpecLostSpeaker == InitLostSpeaker /\ [][NextPipeline]_vars

\* C21: when the handler of a task runs and no Speaker is stored under the
\* task's key, the cache step is done as for any other task (the entry set
\* when the speaker has more than one session at the conference, left alone
\* otherwise), the run ends there without an error, and no Speaker is changed
\* or created.
C21_AbsentSpeakerIsNoOp ==
  [][\A t \in SessionIds :
       (/\ Consumes(t) /\ consumer[t].pc = "idle"
        /\ ~speakers[tasks[t].speakerKey].exists) =>
         LET names == SessionsOf(tasks[t].speakerKey, tasks[t].websafeConferenceKey)
         IN  /\ IF Cardinality(names) > 1
                  THEN /\ cache'.set
                       /\ Head(cache'.value) = tasks[t].speakerName
                       /\ Pieces(Tail(Tail(cache'.value))) = names
                  ELSE cache' = cache
             /\ consumer'[t] = IdleConsumer
             /\ tasks'[t].runs = tasks[t].runs + 1
             /\ speakers' = speakers]_vars

\* The handler of a task of Bob's has run with no Speaker stored for Bob: the
\* entry names Bob and there is still no Speaker for him.
C21_Witness ==
  \E t \in SessionIds :
    /\ tasks[t].runs > 0
    /\ tasks[t].speakerKey = "k2"
    /\ ~speakers["k2"].exists
    /\ cache.set
    /\ Head(cache.value) = "Bob"

\* C25: a run of the task handler, whatever its course (Speaker missing, at
\* most one session, a further delivery), leaves every Session, every
\* Conference and every Profile as it was.
C25_ConsumerKeepsStore ==
  [][\A t \in SessionIds :
       Consumes(t) =>
         /\ sessions' = sessions
         /\ conferences' = conferences
         /\ profiles' = profiles]_vars

\* Handlers have run for a task whose Speaker is missing, for a task delivered
\* twice and for a task of a speaker with one session at the conference, and
\* the three sessions are stored as they were created.
C25_Witness ==
  /\ \E t \in SessionIds : tasks[t].runs > 0 /\ tasks[t].speakerKey = "k2"
  /\ \E t \in SessionIds : tasks[t].runs > 1
  /\ \E t \in SessionIds :
       /\ tasks[t].runs > 0
       /\ Cardinality(SessionsOf(tasks[t].speakerKey,
                                 tasks[t].websafeConferenceKey)) = 1
  /\ \A id \in 1..3 :
       /\ sessions[id].exists
       /\ sessions[id].name = SessionTitles[id]
       /\ sessions[id].speakerKey = tasks[id].speakerKey

\* The tasks added for the sessions of speaker k.
TasksOf(k) == {t \in SessionIds : tasks[t].enqueued /\ tasks[t].speakerKey = k}

\* C26: when the tasks of one Speaker have each been handled once, in whatever
\* interleaving of their handlers, the Speaker's sessions list has grown by
\* exactly the session names of those tasks and sessions_count by their
\* number: no append is lost.
C26_NoLostAppend ==
  \A k \in SpeakerKeys :
    (\A t \in TasksOf(k) : tasks[t].runs = 1 /\ consumer[t].pc = "idle") =>
      /\ Len(speakers[k].sessions) = Cardinality(TasksOf(k))
      /\ {speakers[k].sessions[i] : i \in 1..Len(speakers[k].sessions)} =
           {tasks[t].sessionName : t \in TasksOf(k)}
      /\ speakers[k].sessions_count = Cardinality(TasksOf(k))

\* ----------------------------------------------------------------- producer

\* Ann and conference c1 are in the store, Bob and conference c2 are not.
InitProducer ==
  /\ profiles = [u \in Users |-> NoProfile]
  /\ conferences = [c \in ConfKeys |->
       IF c = "c1" THEN createConferenceObject(ConfParent(c), <<1>>, None)
       ELSE NoConference]
  /\ sessions = [id \in SessionIds |-> NoSession]
  /\ pc = [w \in Workers |-> "idle"]
  /\ req = [w \in Workers |-> NoRequest]
  /\ snap = [w \in Workers |-> NoSnapshot]
  /\ attempt = [w \in Workers |-> 0]
  /\ stale = [w \in Workers |-> FALSE]
  /\ result = [w \in Workers |-> NoResult]
  /\ linkPre = [u \in Users |-> [c \in ConfKeys |-> <<>>]]
  /\ NoQueryRequest
  /\ speakers = [k \in SpeakerKeys |->
       IF k = "k1"
         THEN createSpeakerObject([name |-> "Ann", sessions |-> <<>>,
                                   sessions_count |-> None])
         ELSE NoSpeaker]
  /\ tasks = [t \in SessionIds |-> NoTask]
  /\ consumer = [t \in SessionIds |-> IdleConsumer]
  /\ cache = NoCache
  /\ announcements = NoCache

SpecProducer == InitProducer /\ [][NextPipeline]_vars

\* C22: a step that stores a session adds, in the same request, exactly one
\* task, whose payload is the session's speaker key, that speaker's stored
\* name, the session's name and the session's conference key, and no task is
\* added otherwise; a session is never stored for a speaker or a conference
\* that does not exist, so a creation rejected for either reason stores no
\* session and adds no task.
C22_SessionStoredThenTaskAdded ==
  /\ [](\A id \in SessionIds :
          /\ tasks[id].enqueued <=> sessions[id].exists
          /\ sessions[id].exists =>
               /\ speakers[sessions[id].speakerKey].exists
               /\ conferences[sessions[id].websafeConferenceKey].exists)
  /\ [][\A id \in SessionIds :
          IF ~sessions[id].exists /\ sessions'[id].exists
            THEN LET s == sessions'[id] IN
                 /\ tasks'[id] = [enqueued |-> TRUE,
                                  speakerKey |-> s.speakerKey,
                                  speakerName |-> speakers[s.speakerKey].name,
                                  sessionName |-> s.name,
                                  websafeConferenceKey |-> s.websafeConferenceKey,
                                  runs |-> 0]
                 /\ \A j \in SessionIds \ {id} :
                      sessions'[j] = sessions[j] /\ tasks'[j] = tasks[j]
            ELSE tasks'[id].enqueued = tasks[id].enqueued]_vars

\* Ann's session at conference c1 is stored and its task is in the queue with
\* her key, her name, the session's name and c1; Bob and conference c2 are not
\* in the store and nothing is stored or queued for them.
C22_Witness ==
  /\ ~speakers["k2"].exists /\ ~conferences["c2"].exists
  /\ sessions[1] = createSessionObject("Keynote", "k1", "c1")
  /\ tasks[1] = Task("k1", "Ann", "Keynote", "c1")
  /\ \A id \in SessionIds :
       sessions[id].exists =>
         sessions[id].speakerKey = "k1" /\ sessions[id].websafeConferenceKey = "c1"

\* ------------------------------------------------------------- the read path

\* The pipeline for the sessions of conference c1.
NextOneConference ==
  \/ \E k \in SpeakerKeys : createSession(k, "c1")
  \/ \E t \in SessionIds : SetFeaturedSpeaker(t)
  \/ \E t \in SessionIds : PutSpeaker(t)

\* The pipeline for the sessions of conference c1, with getFeaturedSpeaker
\* called at any moment.
NextFeatured ==
  \/ NextOneConference
  \/ getFeaturedSpeaker("w1")
  \/ Respond("w1")

SpecFeatured == InitPipeline /\ [][NextFeatured]_vars

\* Worker w answers a getFeaturedSpeaker call in this step.
GetsFeaturedSpeaker(w) ==
  pc[w] = "idle" /\ pc'[w] = "done" /\ req'[w].op = "getFeaturedSpeaker"

\* C24: getFeaturedSpeaker returns exactly the text stored under the
\* FEATURED_SPEAKER key, or the empty text when the key is absent, and changes
\* neither the cache nor the store.
C24_ReadsTheCache ==
  [][\A w \in Workers :
       GetsFeaturedSpeaker(w) =>
         /\ result'[w].exc = ""
         /\ result'[w].data = IF cache.set THEN cache.value ELSE <<>>
         /\ cache' = cache
         /\ store' = store
         /\ speakers' = speakers
         /\ tasks' = tasks]_vars

\* getFeaturedSpeaker has returned the announcement of Ann's two sessions,
\* which is still the entry.
C24_Witness ==
  \E w \in Workers :
    /\ pc[w] = "done" /\ req[w].op = "getFeaturedSpeaker"
    /\ result[w].data = Announcement("Ann", <<"Keynote", "Panel">>)
    /\ cache.set /\ cache.value = result[w].data

\* C30: no step removes the FEATURED_SPEAKER entry: once it is set it is set
\* in every later state, to a text that is not empty, and getFeaturedSpeaker
\* then returns a text that is not empty, also after the handler of a task
\* whose speaker has at most one session at the conference has run.
C30_EntryNeverDeleted ==
  [][/\ cache.set => cache'.set /\ cache'.value # <<>>
     /\ \A w \in Workers :
          (GetsFeaturedSpeaker(w) /\ cache.set) => result'[w].data # <<>>]_vars

\* The entry announces Ann; the handler of the task of Bob's only session,
\* created after Ann's two, has run, and getFeaturedSpeaker has returned a
\* text that is not empty.
C30_Witness ==
  /\ cache.set /\ Head(cache.value) = "Ann"
  /\ tasks[3].speakerKey = "k2" /\ tasks[3].runs > 0
  /\ tasks[1].runs > 0 /\ tasks[2].runs > 0
  /\ pc["w1"] = "done" /\ req["w1"].op = "getFeaturedSpeaker"
  /\ result["w1"].data # <<>>

\* ------------------------------------------------------------ fair delivery

\* The push queue delivers every task: the first delivery of a task in the
\* queue is not put off for ever, and a handler that has begun runs to its end.
\* Deliveries beyond the first are left to the queue.
FairDelivery ==
  \A t \in SessionIds :
    /\ WF_vars(tasks[t].runs = 0 /\ SetFeaturedSpeaker(t))
    /\ WF_vars(PutSpeaker(t))

FairPipeline == InitPipeline /\ [][NextOneConference]_vars /\ FairDelivery

\* The entry announces the speaker of task t with the session of task t among
\* the sessions listed.
Announced(t) ==
  /\ cache.set
  /\ Head(cache.value) = tasks[t].speakerName
  /\ tasks[t].sessionName \in Pieces(Tail(Tail(cache.value)))

\* C23: under fair delivery every task added by a session creation is
\* eventually handled, and when the speaker of a task not yet handled has more
\* than one session at the task's conference, the entry eventually announces
\* that speaker with the task's session among those listed.
C23_EventuallyAnnounced ==
  \A t \in SessionIds :
    /\ tasks[t].enqueued ~> tasks[t].runs > 0
    /\ (/\ tasks[t].enqueued /\ tasks[t].runs = 0 /\ consumer[t].pc = "idle"
        /\ Cardinality(SessionsOf(tasks[t].speakerKey,
                                  tasks[t].websafeConferenceKey)) > 1)
         ~> Announced(t)

\* Ann's third session at conference c1 has been created and its task is still
\* in the queue: the entry, set by the handler of her second session's task,
\* announces her first two sessions and not yet the third.
C23_Witness ==
  /\ tasks[3].enqueued /\ tasks[3].runs = 0 /\ consumer[3].pc = "idle"
  /\ tasks[3].speakerKey = "k1" /\ tasks[3].websafeConferenceKey = "c1"
  /\ tasks[2].runs > 0
  /\ Announced(2)
  /\ ~Announced(3)
  /\ cache.value = Announcement("Ann", <<"Keynote", "Panel">>)

\* ------------------------------------------------------------ announcements

\* The numbers of seats conferences are created with.
AnnouncementSeats == {0, 1, NearlySoldOutSeats, NearlySoldOutSeats + 1}

\* No conference yet.
InitAnnouncement ==
  /\ profiles = [u \in Users |-> NoProfile]
  /\ conferences = [c \in ConfKeys |-> NoConference]
  /\ sessions = [s \in SessionKeys |-> NoSession]
  /\ pc = [w \in Workers |-> "idle"]
  /\ req = [w \in Workers |-> NoRequest]
  /\ snap = [w \in Workers |-> NoSnapshot]
  /\ attempt = [w \in Workers |-> 0]
  /\ stale = [w \in Workers |-> FALSE]
  /\ result = [w \in Workers |-> NoResult]
  /\ linkPre = [u \in Users |-> [c \in ConfKeys |-> <<>>]]
  /\ NoQueryRequest
  /\ NoSpeakers
  /\ announcements = NoCache

\* Conferences are created, users register and unregister through worker w1,
\* and the cron request runs on worker w2 at any moment between two commits.
NextAnnouncement ==
  \/ \E u \in Users, ma \in AnnouncementSeats : createConference(u, <<ma>>, None)
  \/ \E u \in Users, k \in ConfKeys : registerForConference("w1", u, k)
  \/ \E u \in Users, k \in ConfKeys : unregisterFromConference("w1", u, k)
  \/ TxnRaise("w1")
  \/ TxnCommit("w1")
  \/ TxnRetry("w1")
  \/ Respond("w1")
  \/ cacheAnnouncement("w2")
  \/ Respond("w2")

SpecAnnouncement == InitAnnouncement /\ [][NextAnnouncement]_vars

\* Worker w runs _cacheAnnouncement in this step.
CachesAnnouncement(w) ==
  pc[w] = "idle" /\ pc'[w] = "done" /\ req'[w].op = "cacheAnnouncement"

\* The conferences with 0 < seatsAvailable <= 5.
FewSeats ==
  {c \in ConfKeys : /\ conferences[c].exists
                    /\ 0 < conferences[c].seatsAvailable
                    /\ conferences[c].seatsAvailable <= 5}

\* C29: after a run of _cacheAnnouncement the RECENT_ANNOUNCEMENTS entry is
\* there exactly when some conference has 0 < seatsAvailable <= 5 at that
\* moment; its text then names those conferences, each once, and no other, and
\* is what the run returns; when there is none the entry is deleted and the
\* empty text is returned.
C29_AnnouncementOfFewSeats ==
  [][\A w \in Workers :
       CachesAnnouncement(w) =>
         /\ conferences' = conferences
         /\ IF FewSeats # {}
              THEN /\ announcements'.set
                   /\ Pieces(Tail(announcements'.value)) =
                        {ConferenceNames[c] : c \in FewSeats}
                   /\ Len(announcements'.value) = 2 * Cardinality(FewSeats)
                   /\ result'[w].data = announcements'.value
              ELSE /\ ~announcements'.set
                   /\ result'[w].data = <<>>]_vars

\* A run has set the entry to the name of the one conference with five seats
\* left, the other conference having none; a run before it had set it too.
C29_Witness ==
  /\ pc["w2"] = "done" /\ req["w2"].op = "cacheAnnouncement"
  /\ conferences["c1"].exists /\ conferences["c1"].seatsAvailable = 5
  /\ conferences["c1"].maxAttendees = 6
  /\ conferences["c2"].exists /\ conferences["c2"].seatsAvailable = 0
  /\ conferences["c2"].maxAttendees = 1
  /\ announcements.set
  /\ announcements.value = ANNOUNCEMENT_TPL(<<"PyCon">>)
  /\ result["w2"].data = announcements.value
====
